---- MODULE Spec2Model ----
(***************************************************************************)
(* A model of the bhumio demo: the out-of-order event reconciler           *)
(* (app/(pages)/out-of-order/page.tsx) and the eventually consistent       *)
(* payment form (app/page.tsx) with its mock API                           *)
(* (app/api/form-consistent/route.ts), the paginated list                  *)
(* (app/(pages)/quirky/page.tsx) with its API, and the dynamic validator   *)
(* form (app/(pages)/form-handelling/page.tsx).                            *)
(*                                                                         *)
(* Time is counted in units of 1000 ms: the order flow's offsets of 2000   *)
(* and 5000 ms are 2 and 5, and its timer delays i * 1000 ms are i.        *)
(***************************************************************************)
EXTENDS Integers, Sequences, FiniteSets, TLC

VARIABLES
    \* ---- out-of-order page -------------------------------------------
    stateMap,           \* stateMap.current: the Map, as its entries in insertion order
    ordersDb,           \* localStorage['bhumio-orders-db']
    isLoaded,           \* isLoaded.current of the out-of-order page
    eventLog,           \* eventLog, of which the model keeps the newest entry
    activeItems,        \* activeItems (the active view)
    allItemsInStorage,  \* allItemsInStorage (the full-history view)
    timers,             \* the setTimeout callbacks generateOrderFlow has pending
    now,                \* the reading of Date.now()
    seenTop,            \* history: per id, the top timestamp delivered since the last reset
    existingRecord,     \* history: existingRecord of the latest processEvent call
    batch,              \* the fixed set of events of a permutation run
    undelivered,        \* the events of batch not yet delivered
    \* ---- payment form and its API ------------------------------------
    transactions,       \* transactions (the ledger), newest first
    txLogs,             \* localStorage['bhumio-tx-logs']
    txLoaded,           \* isLoaded.current of the payment page
    email,              \* the form's email field
    amount,             \* the form's amount field
    nextKey,            \* the number of idempotency keys crypto.randomUUID() has given
    calls,              \* the processTransaction calls of the page: awaiting fetch, or a retry timer
    requests,           \* the HTTP requests under way, and their responses
    processedTransactions,  \* the server's Map of processed keys
    reloads,            \* the number of times the payment page was loaded again
    sent,               \* history: per key, the delivery attempts issued (counted to MAX_RETRIES + 1)
    allTransient,       \* history: per key, every attempt that ended ended in a transient failure
    recorded,           \* history: per key, the times the server ran its recording step
    parsedLogs,         \* the setTransactions(parsedLogs) of Effect 1 not yet rendered
    \* ---- paginated list ------------------------------------------------
    items,              \* items (the displayed list), each item as its id
    page,               \* page
    listStatus,         \* status of the list page: idle, loading, error or finished
    seenIds,            \* seenIds.current
    fetching,           \* the page whose fetch is under way, 0 when none is
    newBatch,           \* history: newBatch of the latest answered fetch
    \* ---- validator form ------------------------------------------------
    mode,               \* mode: relaxed or strict
    formData,           \* formData: email, age and notes, as typed
    clientErrors,       \* clientErrors, an absent key as NoError
    serverErrors,       \* serverErrors, an absent key as NoError
    isSubmitting,       \* isSubmitting
    submitSuccess,      \* submitSuccess
    serverCalls         \* the mockSubmitData calls under way, each with the mode it was sent under

ordersVars == <<stateMap, ordersDb, isLoaded, eventLog, activeItems,
                allItemsInStorage, timers, now, seenTop, existingRecord>>
permVars == <<batch, undelivered>>
txVars == <<transactions, txLogs, txLoaded, email, amount, nextKey, calls, requests,
           processedTransactions, reloads, sent, allTransient, recorded>>
listVars == <<items, page, listStatus, seenIds, fetching, newBatch>>
validatorVars == <<mode, formData, clientErrors, serverErrors, isSubmitting,
                  submitSuccess, serverCalls>>
pageVars == <<listVars, validatorVars, parsedLogs>>
vars == <<ordersVars, permVars, txVars, pageVars>>

---------------------------------------------------------------------------
(* Bounds *)

MaxTime == 2        \* timestamps of events handed to processEvent directly: 1..MaxTime
MaxNow == 2         \* Date.now() readings at which an order flow starts: 1..MaxNow
MaxFlows == 1       \* order flows with timers still pending
MaxBatch == 3       \* events of a permutation run

(* Program constants *)

ConfirmedOffset == 2    \* t + 2000
ShippedOffset == 5      \* t + 5000

---------------------------------------------------------------------------
(* Types of the out-of-order page *)

Ids == {"ORD-100", "ORD-101"}
IdOrder == <<"ORD-100", "ORD-101">>     \* the order localeCompare gives the ids
EventType == {"created", "updated", "deleted"}
Payloads == {"PENDING", "CONFIRMED", "SHIPPED"}

\* the events a backend feed hands to processEvent
FeedPayloads == {"PENDING", "SHIPPED"}
ServerEvent == [id : Ids, timestamp : 1..MaxTime, type : EventType, payload : FeedPayloads]

EventsOf(id) == {ev \in ServerEvent : ev.id = id}

NoEvent == [id |-> "", timestamp |-> 0, type |-> "", payload |-> ""]
NoItem == [id |-> "", lastUpdated |-> 0, type |-> "", payload |-> ""]

Max(a, b) == IF a >= b THEN a ELSE b

IdRank(id) == CHOOSE i \in DOMAIN IdOrder : IdOrder[i] = id

---------------------------------------------------------------------------
(* The Map: entries in insertion order *)

MapHas(m, id) == \E i \in DOMAIN m : m[i].id = id

MapGet(m, id) ==
    IF MapHas(m, id) THEN m[CHOOSE i \in DOMAIN m : m[i].id = id] ELSE NoItem

MapSetAlone(m, item) == <<item>>

\* Map.set: an existing key keeps its position, a new key goes last
MapSet(m, item) ==
    IF MapHas(m, item.id)
    THEN [i \in DOMAIN m |-> IF m[i].id = item.id THEN item ELSE m[i]]
    ELSE Append(m, item)

\* Array.from(map.entries()): the [key, value] pairs
MapEntries(m) == [i \in DOMAIN m |-> <<m[i].id, m[i]>>]

\* new Map(entries): a later pair of a key replaces the value of an earlier one
RECURSIVE MapFromEntries(_)
MapFromEntries(es) ==
    IF es = <<>> THEN <<>>
    ELSE LET front == MapFromEntries(SubSeq(es, 1, Len(es) - 1))
             last == es[Len(es)]
         IN  IF MapHas(front, last[1])
             THEN [i \in DOMAIN front |-> IF front[i].id = last[1] THEN last[2] ELSE front[i]]
             ELSE Append(front, last[2])

---------------------------------------------------------------------------
(* localStorage['bhumio-orders-db'] *)

NoStorage == [present |-> FALSE, entries |-> <<>>]

\* an item of localStorage holding text that JSON.parse rejects
DamagedOrdersDb == [present |-> TRUE, entries |-> <<<<"", NoItem>>>>]

OrdersParseAnything(db) == db.present

\* the hydration effect finds an item and JSON.parse and new Map accept it
OrdersParse(db) == db.present /\ db # DamagedOrdersDb

\* A fault of saveToStorage: nothing is written.
SaveNothing(loaded, m, db) == db

\* saveToStorage
SaveToStorage(loaded, m, db) ==
    IF ~loaded THEN db ELSE [present |-> TRUE, entries |-> MapEntries(m)]

---------------------------------------------------------------------------
(* refreshUI *)

\* stable insertion by the comparator (a, b) => a.id.localeCompare(b.id)
InsertById(sorted, x) ==
    LET k == Cardinality({i \in DOMAIN sorted : IdRank(sorted[i].id) <= IdRank(x.id)})
    IN  SubSeq(sorted, 1, k) \o <<x>> \o SubSeq(sorted, k + 1, Len(sorted))

RECURSIVE SortById(_)
SortById(s) ==
    IF s = <<>> THEN <<>>
    ELSE InsertById(SortById(SubSeq(s, 1, Len(s) - 1)), s[Len(s)])

\* stable insertion by the comparator (a, b) => b.lastUpdated - a.lastUpdated
InsertNewestFirst(sorted, x) ==
    LET k == Cardinality({i \in DOMAIN sorted : sorted[i].lastUpdated >= x.lastUpdated})
    IN  SubSeq(sorted, 1, k) \o <<x>> \o SubSeq(sorted, k + 1, Len(sorted))

RECURSIVE SortNewestFirst(_)
SortNewestFirst(s) ==
    IF s = <<>> THEN <<>>
    ELSE InsertNewestFirst(SortNewestFirst(SubSeq(s, 1, Len(s) - 1)), s[Len(s)])

ShowAll(item) == TRUE

IsShown(item) == item.type # "deleted"

ActiveView(m) == SortById(SelectSeq(m, IsShown))

StorageView(m) == SortNewestFirst(m)

---------------------------------------------------------------------------
(* processEvent *)

\* the snapshot built from an event
ItemOf(ev) ==
    [id |-> ev.id, lastUpdated |-> ev.timestamp, type |-> ev.type, payload |-> ev.payload]

\* Faults of the timestamp check: every event is applied; an event at the
\* stored timestamp is applied; nothing is applied over a tombstone.
IsLateNever(m, ev) == FALSE

IsLateStrict(m, ev) ==
    MapHas(m, ev.id) /\ MapGet(m, ev.id).lastUpdated > ev.timestamp

IsLateOrDeleted(m, ev) ==
    MapHas(m, ev.id) /\
    (MapGet(m, ev.id).lastUpdated >= ev.timestamp \/ MapGet(m, ev.id).type = "deleted")

\* existingRecord && existingRecord.lastUpdated >= newEvent.timestamp
IsLate(m, ev) ==
    MapHas(m, ev.id) /\ MapGet(m, ev.id).lastUpdated >= ev.timestamp

\* the Map after processEvent's update
ApplyEvent(m, ev) == MapSet(m, ItemOf(ev))

\* setEventLog((prev) => [newEvent, ...prev]). The raw feed is display only
\* (the page renders eventLog.slice(0, 5) and nothing reads it back): the model
\* keeps its newest entry.
LogEvent(log, ev) == SubSeq(<<ev>> \o log, 1, 1)

ProcessEvent(ev) ==
    /\ eventLog' = LogEvent(eventLog, ev)
    /\ IF IsLate(stateMap, ev)
       THEN UNCHANGED <<stateMap, ordersDb, activeItems, allItemsInStorage>>
       ELSE /\ stateMap' = ApplyEvent(stateMap, ev)
            /\ ordersDb' = SaveToStorage(isLoaded, stateMap', ordersDb)
            /\ activeItems' = ActiveView(stateMap')
            /\ allItemsInStorage' = StorageView(stateMap')
    /\ UNCHANGED isLoaded

---------------------------------------------------------------------------
(* The operations of the out-of-order page *)

\* History, not program state: the first event delivered at the top timestamp
\* since the last reset, and the types of all events delivered at that timestamp.
Seen(top, ev) ==
    IF ev.timestamp > top.first.timestamp
    THEN [first |-> ev, types |-> {ev.type}]
    ELSE IF ev.timestamp = top.first.timestamp
         THEN [top EXCEPT !.types = @ \cup {ev.type}]
         ELSE top

NothingSeen == [id \in Ids |-> [first |-> NoEvent, types |-> {}]]

\* the history of a delivery of ev
Record(ev) ==
    /\ seenTop' = [seenTop EXCEPT ![ev.id] = Seen(@, ev)]
    /\ existingRecord' = MapGet(stateMap, ev.id)

\* the backend hands an event to processEvent
ReceiveEvent(ev) ==
    /\ ProcessEvent(ev)
    /\ Record(ev)
    /\ UNCHANGED <<timers, now, permVars, txVars, pageVars>>

\* the three events generateOrderFlow builds for one order
FlowEvents(id, t) ==
    { [id |-> id, timestamp |-> t, type |-> "created", payload |-> "PENDING"],
      [id |-> id, timestamp |-> t + ConfirmedOffset, type |-> "updated", payload |-> "CONFIRMED"],
      [id |-> id, timestamp |-> t + ShippedOffset, type |-> "updated", payload |-> "SHIPPED"] }

\* the orders events.sort(() => Math.random() - 0.5) can leave the events in
Shuffles(S) ==
    { q \in [1..Cardinality(S) -> S] : \A e \in S : \E i \in DOMAIN q : q[i] = e }

\* generateOrderFlow: the i-th event of the shuffle is delivered after i * 1000 ms
GenerateOrderFlow(id, shuffled) ==
    /\ Len(timers) < MaxFlows
    /\ shuffled \in Shuffles(FlowEvents(id, now))
    /\ timers' = Append(timers, [t |-> now, queue |-> shuffled])
    /\ UNCHANGED <<stateMap, ordersDb, isLoaded, eventLog, activeItems,
                   allItemsInStorage, now, seenTop, existingRecord, permVars, txVars, pageVars>>

\* the number of timers of a flow that have run
Fired(flow) == 3 - Len(flow.queue)

\* A timer of flow k runs: timers run in the order of their due times, so a
\* flow started later has run no more of its timers than one started earlier.
TimerFires(k) ==
    /\ k \in DOMAIN timers
    /\ \A j \in 1..(k - 1) : Fired(timers[j]) > Fired(timers[k])
    /\ LET flow == timers[k]
           rest == [flow EXCEPT !.queue = Tail(@)]
       IN  /\ ProcessEvent(Head(flow.queue))
           /\ timers' = IF rest.queue = <<>>
                        THEN SubSeq(timers, 1, k - 1) \o SubSeq(timers, k + 1, Len(timers))
                        ELSE [timers EXCEPT ![k] = rest]
    /\ UNCHANGED <<now, seenTop, existingRecord, permVars, txVars, pageVars>>

\* time passes
Tick ==
    /\ now < MaxNow
    /\ now' = now + 1
    /\ UNCHANGED <<stateMap, ordersDb, isLoaded, eventLog, activeItems,
                   allItemsInStorage, timers, seenTop, existingRecord, permVars, txVars, pageVars>>

\* clearStorage (the Reset button)
ClearStorage ==
    /\ ordersDb' = NoStorage
    /\ stateMap' = <<>>
    /\ eventLog' = <<>>
    /\ activeItems' = ActiveView(stateMap')
    /\ allItemsInStorage' = StorageView(stateMap')
    /\ seenTop' = NothingSeen
    /\ existingRecord' = NoItem
    /\ UNCHANGED <<isLoaded, timers, now, permVars, txVars, pageVars>>

\* The page is loaded again: the old page's timers and React state are gone,
\* and the hydration effect reads the Map back from storage.
Reload ==
    /\ timers' = <<>>
    /\ eventLog' = <<>>
    /\ IF OrdersParse(ordersDb)
       THEN /\ stateMap' = MapFromEntries(ordersDb.entries)
            /\ activeItems' = ActiveView(stateMap')
            /\ allItemsInStorage' = StorageView(stateMap')
       ELSE /\ stateMap' = <<>>
            /\ activeItems' = <<>>
            /\ allItemsInStorage' = <<>>
    /\ isLoaded' = TRUE
    /\ existingRecord' = NoItem
    /\ UNCHANGED <<ordersDb, now, seenTop, permVars, txVars, pageVars>>

---------------------------------------------------------------------------
(* The payment form (app/page.tsx) and its API (api/form-consistent/route.ts) *)

MaxTx == 1          \* form submissions
MaxReloads == 1     \* loads of the payment page after the first

MAX_RETRIES == 5

Keys == 1..MaxTx    \* the n-th key crypto.randomUUID() gives
Emails == {"", "a@b.c"}
Amounts == {"", "0", "5"}
TransactionStatus == {"pending", "retrying", "success", "error"}

NaN == -1

\* parseFloat of the amount field
ParseFloat(str) == IF str = "0" THEN 0 ELSE IF str = "5" THEN 5 ELSE NaN

\* JavaScript's !value for the strings of a request's body
FalsyString(value) == value = ""

\* JavaScript's !value for the amount of a request's body (JSON.stringify
\* writes NaN as null)
FalsyNumber(value) == value = 0 \/ value = NaN

NoLogs == [present |-> FALSE, logs |-> <<>>]

\* the item 'bhumio-tx-logs' holding text that JSON.parse rejects
DamagedLogs ==
    [present |-> TRUE,
     logs |-> <<[id |-> 0, email |-> "", amount |-> "", status |-> "", timestamp |-> 0]>>]

LogsParseAnything(store) == store.present

\* Effect 1 finds an item and JSON.parse accepts it
LogsParse(store) == store.present /\ store # DamagedLogs

\* Effect 2: localStorage.setItem('bhumio-tx-logs', JSON.stringify(transactions)).
\* A Transaction holds strings and finite numbers only, which JSON.parse gives
\* back as they were.
SaveLogs(loaded, txs, store) ==
    IF loaded THEN [present |-> TRUE, logs |-> txs] ELSE store

UpdateEveryStatus(txs, id, status) ==
    [i \in DOMAIN txs |-> [txs[i] EXCEPT !.status = status]]

UpsertTransactionStatus(txs, id, status) ==
    IF \E i \in DOMAIN txs : txs[i].id = id
    THEN [i \in DOMAIN txs |-> IF txs[i].id = id THEN [txs[i] EXCEPT !.status = status] ELSE txs[i]]
    ELSE <<[id |-> id, email |-> "", amount |-> "", status |-> status, timestamp |-> id]>> \o txs

\* updateTransactionStatus
UpdateTransactionStatus(txs, id, status) ==
    [i \in DOMAIN txs |-> IF txs[i].id = id THEN [txs[i] EXCEPT !.status = status] ELSE txs[i]]

\* what a processTransaction call reads of its tx argument
Closure(tx) == [id |-> tx.id, email |-> tx.email, amount |-> tx.amount]

\* the request fetch('/api/form-consistent', ...) sends for tx
Fetch(tx) ==
    [key |-> tx.id, email |-> tx.email, amount |-> ParseFloat(tx.amount),
     stage |-> "sent", live |-> TRUE]

\* the request a call is awaiting
RequestOf(c) == CHOOSE r \in requests : r.live /\ r.key = c.tx.id

Responses == {"200", "400", "503"}

\* history: one more delivery attempt for a key
Count(n) == IF n > MAX_RETRIES THEN n ELSE n + 1

\* attempt > 1: updateTransactionStatus(tx.id, 'retrying')
StatusAtAttempt(txs, id, attempt) ==
    IF attempt > 1 THEN UpdateTransactionStatus(txs, id, "retrying") ELSE txs

RetryNever(attempt) == FALSE

\* attempt < MAX_RETRIES: a retry is scheduled
RetryAllowed(attempt) == attempt < MAX_RETRIES

KeptField(value) == value

\* setEmail(''), setAmount('')
ClearedField(value) == ""

\* handleSubmit, with e and a typed into the form
HandleSubmit(e, a) ==
    /\ e # "" /\ a # ""
    /\ nextKey < MaxTx
    /\ LET newTransaction == [id |-> nextKey + 1, email |-> e, amount |-> a,
                              status |-> "pending", timestamp |-> nextKey + 1]
       IN  /\ nextKey' = nextKey + 1
           /\ transactions' = <<newTransaction>> \o transactions
           /\ email' = ClearedField(e)
           /\ amount' = ClearedField(a)
           /\ calls' = calls \cup {[tx |-> Closure(newTransaction), attempt |-> 1, pc |-> "fetch"]}
           /\ requests' = requests \cup {Fetch(newTransaction)}
           /\ sent' = [sent EXCEPT ![newTransaction.id] = Count(@)]
    /\ txLogs' = SaveLogs(txLoaded, transactions', txLogs)
    /\ UNCHANGED <<txLoaded, processedTransactions, reloads, allTransient, recorded>>
    /\ UNCHANGED <<ordersVars, permVars, pageVars>>

\* the catch block of processTransaction, for call c
Catch(c) ==
    IF RetryAllowed(c.attempt)
    THEN /\ calls' = (calls \ {c}) \cup {[c EXCEPT !.pc = "timer"]}
         /\ UNCHANGED <<transactions, txLogs>>
    ELSE /\ calls' = calls \ {c}
         /\ transactions' = UpdateTransactionStatus(transactions, c.tx.id, "error")
         /\ txLogs' = SaveLogs(txLoaded, transactions', txLogs)

IsAnyFailure(status) == status # "200"

\* response.status === 503: the response is thrown into the catch block
IsTransient(status) == status = "503"

IsAnyAnswer(status) == TRUE

\* response.ok
IsOk(status) == status = "200"

\* the response of the awaited request arrives
ClientResponse(c) ==
    /\ c \in calls /\ c.pc = "fetch"
    /\ LET r == RequestOf(c)
       IN  /\ r.stage \in Responses
           /\ requests' = requests \ {r}
           /\ IF IsTransient(r.stage)
              THEN /\ Catch(c)
                   /\ UNCHANGED allTransient
              ELSE /\ calls' = calls \ {c}
                   /\ transactions' = UpdateTransactionStatus(transactions, c.tx.id,
                                          IF IsOk(r.stage) THEN "success" ELSE "error")
                   /\ txLogs' = SaveLogs(txLoaded, transactions', txLogs)
                   /\ allTransient' = [allTransient EXCEPT ![c.tx.id] = FALSE]
    /\ UNCHANGED <<txLoaded, email, amount, nextKey, processedTransactions, reloads, sent, recorded>>
    /\ UNCHANGED <<ordersVars, permVars, pageVars>>

\* fetch rejects (a network error). A response is lost; a request the server
\* has not answered stays with the server, which answers to nobody (a request
\* that never arrives is one answered 503 to nobody).
FetchThrows(c) ==
    /\ c \in calls /\ c.pc = "fetch"
    /\ LET r == RequestOf(c)
       IN  requests' = IF r.stage \in Responses
                       THEN requests \ {r}
                       ELSE (requests \ {r}) \cup {[r EXCEPT !.live = FALSE]}
    /\ Catch(c)
    /\ UNCHANGED <<txLoaded, email, amount, nextKey, processedTransactions, reloads, sent,
                   allTransient, recorded>>
    /\ UNCHANGED <<ordersVars, permVars, pageVars>>

\* the retry timer of call c runs: processTransaction(tx, attempt + 1)
RetryTimer(c) ==
    /\ c \in calls /\ c.pc = "timer"
    /\ transactions' = StatusAtAttempt(transactions, c.tx.id, c.attempt + 1)
    /\ txLogs' = SaveLogs(txLoaded, transactions', txLogs)
    /\ calls' = (calls \ {c}) \cup {[c EXCEPT !.attempt = @ + 1, !.pc = "fetch"]}
    /\ requests' = requests \cup {Fetch(c.tx)}
    /\ sent' = [sent EXCEPT ![c.tx.id] = Count(@)]
    /\ UNCHANGED <<txLoaded, email, amount, nextKey, processedTransactions, reloads,
                   allTransient, recorded>>
    /\ UNCHANGED <<ordersVars, permVars, pageVars>>

\* clearLogs, confirmed by the user: the ledger is emptied and its item
\* removed; Effect 2 then saves the empty ledger
ClearLogs ==
    /\ transactions' = <<>>
    /\ txLogs' = SaveLogs(txLoaded, transactions', NoLogs)
    /\ UNCHANGED <<txLoaded, email, amount, nextKey, calls, requests, processedTransactions,
                   reloads, sent, allTransient, recorded>>
    /\ UNCHANGED <<ordersVars, permVars, pageVars>>

ResumeAll(txs) == {txs[i] : i \in DOMAIN txs}

ResumeNothing(txs) == {}

ResumePending(txs) == {txs[i] : i \in {j \in DOMAIN txs : txs[j].status = "pending"}}

\* Effect 1: the transactions that are resumed
Resumable(txs) ==
    {txs[i] : i \in {j \in DOMAIN txs : txs[j].status = "pending" \/ txs[j].status = "retrying"}}

\* the attempt number Effect 1 resumes a transaction at
ResumeAttempt(tx) == 1

\* The payment page is loaded again. The calls and timers of the old page are
\* gone; the responses to its requests are lost, and the requests the server
\* has not answered stay with the server, which answers to nobody.
\* Effect 1 reads the ledger back and resumes what was pending or retrying.
ReloadPayments ==
    /\ reloads < MaxReloads
    /\ reloads' = reloads + 1
    /\ transactions' = IF LogsParse(txLogs) THEN txLogs.logs ELSE <<>>
    /\ LET orphans == {r \in requests : ~r.live}
           left == {[r EXCEPT !.live = FALSE] :
                       r \in {q \in requests : q.live /\ q.stage \notin Responses}}
           resumed == Resumable(transactions')
       IN  /\ calls' = {[tx |-> Closure(tx), attempt |-> ResumeAttempt(tx), pc |-> "fetch"] :
                            tx \in resumed}
           /\ requests' = orphans \cup left \cup {Fetch(tx) : tx \in resumed}
           /\ sent' = [k \in Keys |-> IF \E tx \in resumed : tx.id = k THEN Count(sent[k]) ELSE sent[k]]
           /\ allTransient' = [k \in Keys |->
                                 allTransient[k] /\ ~\E c \in calls : c.tx.id = k /\ c.pc = "fetch"]
    /\ email' = ""
    /\ amount' = ""
    /\ txLoaded' = TRUE
    /\ txLogs' = SaveLogs(txLoaded', transactions', txLogs)
    /\ UNCHANGED <<nextKey, processedTransactions, recorded>>
    /\ UNCHANGED <<ordersVars, permVars, pageVars>>

(* The API handler *)

NoRecord == [email |-> "", amount |-> 0, date |-> 0]

NeverProcessed(map, key) == FALSE

\* processedTransactions.has(idempotencyKey)
IsProcessed(map, key) == map[key] # NoRecord

\* processedTransactions.set(idempotencyKey, { email, amount, date: new Date() }),
\* the date being the number of the recording
SetProcessed(map, r, date) ==
    [map EXCEPT ![r.key] = [email |-> r.email, amount |-> r.amount, date |-> date]]

RejectedRemembered(map, r) == SetProcessed(map, r, 0)

\* the map after a request was rejected: POST returns its 400 and its 503
\* before it reaches processedTransactions.set
Rejected(map, r) == map

\* the response goes to the call awaiting it, if there is one
Respond(r, status) ==
    IF r.live
    THEN (requests \ {r}) \cup {[r EXCEPT !.stage = status]}
    ELSE requests \ {r}

\* the recording step and the response after it
RecordAndRespond(r) ==
    /\ recorded' = [recorded EXCEPT ![r.key] = @ + 1]
    /\ processedTransactions' = SetProcessed(processedTransactions, r, recorded'[r.key])
    /\ requests' = Respond(r, "200")

\* the branches Math.random() selects: < 0.3, < 0.5, the rest
Randoms == {"unavailable", "delayed", "immediate"}

\* POST, from the arrival of request r to its response or to the delay;
\* random is the branch Math.random() selects
Post(r, random) ==
    /\ r \in requests /\ r.stage = "sent"
    /\ IF FalsyString(r.email) \/ FalsyNumber(r.amount) \/ r.key \notin Keys
       THEN /\ requests' = Respond(r, "400")
            /\ processedTransactions' = Rejected(processedTransactions, r)
            /\ UNCHANGED recorded
       ELSE IF IsProcessed(processedTransactions, r.key)
       THEN /\ requests' = Respond(r, "200")
            /\ UNCHANGED <<processedTransactions, recorded>>
       ELSE IF random = "unavailable"
       THEN /\ requests' = Respond(r, "503")
            /\ processedTransactions' = Rejected(processedTransactions, r)
            /\ UNCHANGED recorded
       ELSE IF random = "delayed"
       THEN /\ requests' = (requests \ {r}) \cup {[r EXCEPT !.stage = "delayed"]}
            /\ UNCHANGED <<processedTransactions, recorded>>
       ELSE RecordAndRespond(r)
    /\ UNCHANGED <<transactions, txLogs, txLoaded, email, amount, nextKey, calls, reloads,
                   sent, allTransient>>
    /\ UNCHANGED <<ordersVars, permVars, pageVars>>

\* POST, after the delay of 5 to 10 s
PostAfterDelay(r) ==
    /\ r \in requests /\ r.stage = "delayed"
    /\ RecordAndRespond(r)
    /\ UNCHANGED <<transactions, txLogs, txLoaded, email, amount, nextKey, calls, reloads,
                   sent, allTransient>>
    /\ UNCHANGED <<ordersVars, permVars, pageVars>>

\* the payment page after its first load, with nothing in storage
TxInit ==
    /\ transactions = <<>>
    /\ txLogs = [present |-> TRUE, logs |-> <<>>]
    /\ txLoaded = TRUE
    /\ email = ""
    /\ amount = ""
    /\ nextKey = 0
    /\ calls = {}
    /\ requests = {}
    /\ processedTransactions = [k \in Keys |-> NoRecord]
    /\ reloads = 0
    /\ sent = [k \in Keys |-> 0]
    /\ allTransient = [k \in Keys |-> TRUE]
    /\ recorded = [k \in Keys |-> 0]
    /\ parsedLogs = [queued |-> FALSE, logs |-> <<>>]

TxNext ==
    \/ \E e \in Emails, a \in Amounts : HandleSubmit(e, a)
    \/ \E c \in calls : ClientResponse(c)
    \/ \E c \in calls : FetchThrows(c)
    \/ \E c \in calls : RetryTimer(c)
    \/ ClearLogs
    \/ ReloadPayments
    \/ \E r \in requests, random \in Randoms : Post(r, random)
    \/ \E r \in requests : PostAfterDelay(r)

---------------------------------------------------------------------------
(* The paginated list (quirky/page.tsx) and its API.  An item is modelled *)
(* by its id, unique-record-N by the number N.                             *)

DbSize == 50
FirstId == 1000
PAGE_SIZE == 10
ShortSize == 7
OverlapSize == 2

FACTS_DB == [i \in 1..DbSize |-> FirstId + i - 1]

\* Array.prototype.slice(start, end) for 0 <= start: end is clipped to the length
Slice(array, start, end) ==
    SubSeq(array, start + 1, IF end <= Len(array) THEN end ELSE Len(array))

\* GET: the page asked for, shortened when short, led by the previous page's
\* last items when overlap; short and overlap are the two Math.random() tests
GET(pageToFetch, short, overlap) ==
    LET start == (pageToFetch - 1) * PAGE_SIZE
        end == start + PAGE_SIZE
        result == Slice(FACTS_DB, start, end)
        shortened == IF Len(result) = PAGE_SIZE /\ short
                     THEN Slice(result, 0, ShortSize)
                     ELSE result
    IN  IF start >= Len(FACTS_DB) THEN <<>>
        ELSE IF pageToFetch > 1 /\ overlap
             THEN Slice(FACTS_DB, start - OverlapSize, start) \o shortened
             ELSE shortened

AlwaysNew(seen, id) == TRUE

\* !seenIds.current.has(item.id)
IsNew(seen, id) == id \notin seen

\* uniqueItems of the forEach over newBatch, seen being seenIds.current so far
RECURSIVE UniqueItems(_, _)
UniqueItems(received, seen) ==
    IF received = <<>> THEN <<>>
    ELSE IF IsNew(seen, Head(received))
         THEN <<Head(received)>> \o UniqueItems(Tail(received), seen \cup {Head(received)})
         ELSE UniqueItems(Tail(received), seen)

\* fetchPage up to its await: a fetch still under way is aborted and replaced
FetchPage(pageToFetch) ==
    /\ fetching' = pageToFetch
    /\ listStatus' = "loading"

\* fetchPage after its await, the fetch answered
ListResponse(short, overlap) ==
    /\ fetching # 0
    /\ LET received == GET(fetching, short, overlap)
           uniqueItems == UniqueItems(received, seenIds)
       IN  /\ newBatch' = received
           /\ IF Len(received) = 0
              THEN /\ listStatus' = "finished"
                   /\ UNCHANGED <<items, seenIds>>
              ELSE /\ seenIds' = seenIds \cup {uniqueItems[i] : i \in DOMAIN uniqueItems}
                   /\ items' = items \o uniqueItems
                   /\ listStatus' = "idle"
    /\ fetching' = 0
    /\ UNCHANGED <<page, validatorVars, ordersVars, permVars, txVars, parsedLogs>>

\* fetchPage after its await, the fetch failed or answered with an error listStatus
ListFetchFails ==
    /\ fetching # 0
    /\ listStatus' = "error"
    /\ fetching' = 0
    /\ UNCHANGED <<items, page, seenIds, newBatch, validatorVars, ordersVars, permVars, txVars, parsedLogs>>

\* the Load More button, shown while status is idle
HandleLoadMore ==
    /\ listStatus = "idle"
    /\ page' = page + 1
    /\ FetchPage(page + 1)
    /\ UNCHANGED <<items, seenIds, newBatch, validatorVars, ordersVars, permVars, txVars, parsedLogs>>

\* the Retry button, shown while status is error
ListRetry ==
    /\ listStatus = "error"
    /\ FetchPage(page)
    /\ UNCHANGED <<items, page, seenIds, newBatch, validatorVars, ordersVars, permVars, txVars, parsedLogs>>

\* the list page mounted, its first fetch under way
ListInit ==
    /\ items = <<>>
    /\ page = 1
    /\ listStatus = "loading"
    /\ seenIds = {}
    /\ fetching = 1
    /\ newBatch = <<>>

ListNext ==
    \/ \E short \in BOOLEAN, overlap \in BOOLEAN : ListResponse(short, overlap)
    \/ ListFetchFails
    \/ HandleLoadMore
    \/ ListRetry

---------------------------------------------------------------------------
(* The dynamic validator form (form-handelling/page.tsx).                  *)

FieldNames == {"email", "age", "notes"}
NoError == ""

\* the form mounted: its re-validation effect finds nothing to validate
ValidatorInit ==
    /\ mode = "relaxed"
    /\ formData = [name \in FieldNames |-> ""]
    /\ clientErrors = [name \in FieldNames |-> NoError]
    /\ serverErrors = [name \in FieldNames \cup {"root"} |-> NoError]
    /\ isSubmitting = FALSE
    /\ submitSuccess = FALSE
    /\ serverCalls = {}

\* the values the user types: a malformed, a well-formed, a corporate and a
\* corporate "test" address; ages below, inside and above the strict range;
\* no, blank and some notes
FieldValues ==
    [email |-> {"", "a@b", "a@b.co", "a@corporate.com", "test@bhumio.com"},
     age   |-> {"", "17", "20", "30", "70"},
     notes |-> {"", " ", "n"}]

\* Number(value) on the values of the age field
Number(value) ==
    CASE value = "" -> 0
      [] value = "17" -> 17
      [] value = "20" -> 20
      [] value = "30" -> 30
      [] value = "70" -> 70
      [] OTHER -> NaN

\* value.trim()
Trim(value) == IF value = " " THEN "" ELSE value

RelaxedEverywhere ==
    [m \in {"relaxed", "strict"} |->
        [emailRegex |-> {"a@b.co", "a@corporate.com", "test@bhumio.com"},
         minAge |-> 18, maxAge |-> 100, notesRequired |-> FALSE]]

\* RULES_CONFIG, each emailRegex as the set of typed values it matches
RULES_CONFIG ==
    [relaxed |-> [emailRegex |-> {"a@b.co", "a@corporate.com", "test@bhumio.com"},
                  minAge |-> 18, maxAge |-> 100, notesRequired |-> FALSE],
     strict  |-> [emailRegex |-> {"a@corporate.com", "test@bhumio.com"},
                  minAge |-> 21, maxAge |-> 65, notesRequired |-> TRUE]]

\* validateField as built for the mode m; null is NoError
ValidateField(m, name, value) ==
    LET rules == RULES_CONFIG[m]
    IN  CASE name = "email" ->
                IF value = "" THEN "Email is required"
                ELSE IF value \notin rules.emailRegex
                     THEN IF m = "strict"
                          THEN "Strict Mode: Must be a @corporate.com, @business.com, or @bhumio.com email"
                          ELSE "Invalid email format"
                     ELSE NoError
          [] name = "age" ->
                IF value = "" THEN "Age is required"
                ELSE IF Number(value) = NaN THEN "Must be a number"
                ELSE IF Number(value) < rules.minAge THEN "Must be at least"
                ELSE IF Number(value) > rules.maxAge THEN "Must be under"
                ELSE NoError
          [] name = "notes" ->
                IF rules.notesRequired /\ Trim(value) = "" THEN "Notes are required in Strict mode"
                ELSE NoError

KeepErrors(m, data, prev) == prev

\* the re-validation effect, run after a render that changed mode or formData:
\* the value it hands to setClientErrors for the errors prev
Revalidate(m, data, prev) ==
    LET visited == {name \in FieldNames : data[name] # "" \/ prev[name] # NoError}
        newErrors == [name \in FieldNames |->
                         IF name \in visited THEN ValidateField(m, name, data[name])
                         ELSE NoError]
        \* error !== prev[key]: a null error differs from every stored value
        hasChanges == \E name \in visited :
                         \/ ValidateField(m, name, data[name]) = NoError
                         \/ ValidateField(m, name, data[name]) # prev[name]
    IN  IF hasChanges THEN newErrors ELSE prev

DeleteNothing(errors, name) == errors

\* delete newErrors[name]: the server error of the edited field goes
DeleteError(errors, name) == [errors EXCEPT ![name] = NoError]

\* handleChange of the field name, followed by the re-validation effect
HandleChange(name, value) ==
    /\ value # formData[name]
    /\ formData' = [formData EXCEPT ![name] = value]
    /\ serverErrors' = DeleteError(serverErrors, name)
    /\ clientErrors' = Revalidate(mode, formData',
                           [clientErrors EXCEPT ![name] = ValidateField(mode, name, value)])
    /\ UNCHANGED <<mode, isSubmitting, submitSuccess, serverCalls>>
    /\ UNCHANGED <<listVars, ordersVars, permVars, txVars, parsedLogs>>

\* a mode button, followed by the re-validation effect
SetMode(m) ==
    /\ m # mode
    /\ mode' = m
    /\ clientErrors' = Revalidate(m, formData, clientErrors)
    /\ UNCHANGED <<formData, serverErrors, isSubmitting, submitSuccess, serverCalls>>
    /\ UNCHANGED <<listVars, ordersVars, permVars, txVars, parsedLogs>>

\* handleSubmit of the validator form up to its await; the button is
\* disabled while isSubmitting
ValidatorHandleSubmit ==
    /\ ~isSubmitting
    /\ submitSuccess' = FALSE
    /\ serverErrors' = [name \in DOMAIN serverErrors |-> NoError]
    /\ LET newClientErrors == [name \in FieldNames |-> ValidateField(mode, name, formData[name])]
           hasError == \E name \in FieldNames : newClientErrors[name] # NoError
       IN  /\ clientErrors' = newClientErrors
           /\ IF hasError
              THEN UNCHANGED <<isSubmitting, serverCalls>>
              ELSE /\ isSubmitting' = TRUE
                   /\ serverCalls' = serverCalls \cup {[data |-> formData, mode |-> mode]}
    /\ UNCHANGED <<mode, formData>>
    /\ UNCHANGED <<listVars, ordersVars, permVars, txVars, parsedLogs>>

\* what mockSubmitData resolves with: its errors, all NoError on success;
\* random is the outcome of Math.random() > 0.8
MockSubmitData(data, random) ==
    LET none == [name \in FieldNames \cup {"root"} |-> NoError]
    IN  IF data.email = "test@bhumio.com"
        THEN [none EXCEPT !["email"] = "Server: This email domain is blacklisted."]
        ELSE IF data.age # "" /\ Number(data.age) = 30
        THEN [none EXCEPT !["age"] = "Server: Allocation for age 30 is full."]
        ELSE IF random
        THEN [none EXCEPT !["root"] = "Server: random API gateway timeout. Try again."]
        ELSE none

ResetInput(data) == [name \in FieldNames |-> ""]

\* the fields after an answer: handleSubmit leaves them populated
KeptInput(data) == data

\* handleSubmit after its await
ServerAnswer(call, random) ==
    /\ call \in serverCalls
    /\ LET errors == MockSubmitData(call.data, random)
       IN  IF \E name \in DOMAIN errors : errors[name] # NoError
           THEN /\ serverErrors' = errors
                /\ UNCHANGED submitSuccess
           ELSE /\ submitSuccess' = TRUE
                /\ UNCHANGED serverErrors
    /\ isSubmitting' = FALSE
    /\ serverCalls' = serverCalls \ {call}
    /\ formData' = KeptInput(formData)
    /\ UNCHANGED <<mode, clientErrors>>
    /\ UNCHANGED <<listVars, ordersVars, permVars, txVars, parsedLogs>>

ValidatorNext ==
    \/ \E name \in FieldNames : \E value \in FieldValues[name] : HandleChange(name, value)
    \/ \E m \in {"relaxed", "strict"} : SetMode(m)
    \/ ValidatorHandleSubmit
    \/ \E call \in serverCalls, random \in BOOLEAN : ServerAnswer(call, random)

---------------------------------------------------------------------------
(* Initial states and specifications *)

OrdersInit ==
    /\ stateMap = <<>>
    /\ ordersDb = NoStorage
    /\ isLoaded = TRUE
    /\ eventLog = <<>>
    /\ activeItems = <<>>
    /\ allItemsInStorage = <<>>
    /\ timers = <<>>
    /\ now = 1
    /\ seenTop = NothingSeen
    /\ existingRecord = NoItem

PermIdle ==
    /\ batch = {}
    /\ undelivered = {}

Init ==
    /\ OrdersInit
    /\ PermIdle
    /\ TxInit
    /\ ListInit
    /\ ValidatorInit

\* The page as built: its events come from generateOrderFlow's timers.
Next ==
    \/ \E id \in Ids : \E shuffled \in Shuffles(FlowEvents(id, now)) : GenerateOrderFlow(id, shuffled)
    \/ \E k \in 1..MaxFlows : TimerFires(k)
    \/ Tick
    \/ ClearStorage
    \/ Reload

Spec == Init /\ [][Next]_vars

\* The reconciler fed by a backend: any ServerEvent, in any order, any number
\* of times.
FeedNext ==
    \/ \E ev \in ServerEvent : ReceiveEvent(ev)
    \/ ClearStorage
    \/ Reload

SpecFeed == Init /\ [][FeedNext]_vars

\* The payment page and its API.
SpecPayments == Init /\ [][TxNext]_vars

\* the validation of POST: a body with a field missing
IsInvalid(r) == FalsyString(r.email) \/ FalsyNumber(r.amount) \/ r.key \notin Keys

\* the statuses POST can answer request r with, whatever its map holds and
\* whatever Math.random() gives
Answers(r) == IF IsInvalid(r) THEN {"400"} ELSE {"200", "503"}

\* the API seen from the page: request r is answered with status
Answer(r, status) ==
    /\ r \in requests /\ r.stage = "sent"
    /\ status \in Answers(r)
    /\ requests' = Respond(r, status)
    /\ UNCHANGED <<transactions, txLogs, txLoaded, email, amount, nextKey, calls, reloads,
                   sent, allTransient, processedTransactions, recorded>>
    /\ UNCHANGED <<ordersVars, permVars, pageVars>>

ClientNext ==
    \/ \E e \in Emails, a \in Amounts : HandleSubmit(e, a)
    \/ \E c \in calls : ClientResponse(c)
    \/ \E c \in calls : FetchThrows(c)
    \/ \E c \in calls : RetryTimer(c)
    \/ ClearLogs
    \/ ReloadPayments
    \/ \E r \in requests, status \in Responses : Answer(r, status)

MaxRequests == 2    \* requests the API holds at a time

\* the bodies any client can post: those of the page and another email
Bodies ==
    [key : Keys, email : Emails \cup {"x@y.z"}, amount : {ParseFloat(a) : a \in Amounts}]

\* a request with body b reaches POST
Arrives(b) ==
    /\ Cardinality(requests) < MaxRequests
    /\ requests' = requests \cup
                       {[key |-> b.key, email |-> b.email, amount |-> b.amount,
                         stage |-> "sent", live |-> TRUE]}
    /\ UNCHANGED <<transactions, txLogs, txLoaded, email, amount, nextKey, calls, reloads,
                   sent, allTransient, processedTransactions, recorded>>
    /\ UNCHANGED <<ordersVars, permVars, pageVars>>

\* the response r has reached its client
Taken(r) ==
    /\ r \in requests /\ r.stage \in Responses
    /\ requests' = requests \ {r}
    /\ UNCHANGED <<transactions, txLogs, txLoaded, email, amount, nextKey, calls, reloads,
                   sent, allTransient, processedTransactions, recorded>>
    /\ UNCHANGED <<ordersVars, permVars, pageVars>>

ServerNext ==
    \/ \E b \in Bodies : Arrives(b)
    \/ \E r \in requests, random \in Randoms : Post(r, random)
    \/ \E r \in requests : PostAfterDelay(r)
    \/ \E r \in requests : Taken(r)

\* The API serving any clients.
SpecServer == Init /\ [][ServerNext]_vars

\* something outside the page leaves unparseable text in 'bhumio-orders-db'
DamageOrdersDb ==
    /\ ordersDb' = DamagedOrdersDb
    /\ UNCHANGED <<stateMap, isLoaded, eventLog, activeItems, allItemsInStorage, timers, now,
                   seenTop, existingRecord>>
    /\ UNCHANGED <<permVars, txVars, pageVars>>

\* something outside the page leaves unparseable text in 'bhumio-tx-logs'
DamageLogs ==
    /\ txLogs' = DamagedLogs
    /\ UNCHANGED <<transactions, txLoaded, email, amount, nextKey, calls, requests,
                   processedTransactions, reloads, sent, allTransient, recorded>>
    /\ UNCHANGED <<ordersVars, permVars, pageVars>>

\* the events fed to the orders page here: creations of one order
CreationsOfOne ==
    {ev \in EventsOf(IdOrder[1]) : ev.type = "created" /\ ev.payload = "PENDING"}

DamagedNext ==
    \/ DamageOrdersDb
    \/ DamageLogs
    \/ Reload
    \/ ReloadPayments
    \/ \E ev \in CreationsOfOne : ReceiveEvent(ev)
    \/ \E e \in Emails, a \in Amounts : HandleSubmit(e, a)

\* Both pages with storage that can be damaged from outside: loads, the
\* creation events of one order and submits.
SpecDamaged == Init /\ [][DamagedNext]_vars

MaxLedger == 2      \* entries of a ledger handed to updateTransactionStatus

LedgerIds == 1..MaxLedger

\* the entries handleSubmit creates
NewTransactions ==
    [id : LedgerIds, email : Emails \ {""}, amount : Amounts \ {""}, status : {"pending"},
     timestamp : LedgerIds]

\* the ledgers of up to n new entries, no id twice, the timestamp that of the id
RECURSIVE LedgersOf(_)
LedgersOf(n) ==
    IF n = 0 THEN {<<>>}
    ELSE LedgersOf(n - 1) \cup
         {<<t>> \o l : t \in {x \in NewTransactions : x.timestamp = x.id},
                       l \in {m \in LedgersOf(n - 1) : Len(m) = n - 1}}

Ledgers == {l \in LedgersOf(MaxLedger) : \A i, j \in DOMAIN l : i # j => l[i].id # l[j].id}

\* updateTransactionStatus(id, status) on the ledger as it stands; Effect 2
\* stores the result
UpdateStatus(id, status) ==
    /\ transactions' = UpdateTransactionStatus(transactions, id, status)
    /\ txLogs' = SaveLogs(txLoaded, transactions', txLogs)
    /\ UNCHANGED <<txLoaded, email, amount, nextKey, calls, requests, processedTransactions,
                   reloads, sent, allTransient, recorded>>
    /\ UNCHANGED <<ordersVars, permVars, pageVars>>

\* a loaded page holding any ledger of new entries
LedgerInit ==
    /\ OrdersInit
    /\ PermIdle
    /\ transactions \in Ledgers
    /\ txLogs = [present |-> TRUE, logs |-> transactions]
    /\ txLoaded = TRUE
    /\ email = ""
    /\ amount = ""
    /\ nextKey = 0
    /\ calls = {}
    /\ requests = {}
    /\ processedTransactions = [k \in Keys |-> NoRecord]
    /\ reloads = 0
    /\ sent = [k \in Keys |-> 0]
    /\ allTransient = [k \in Keys |-> TRUE]
    /\ recorded = [k \in Keys |-> 0]
    /\ parsedLogs = [queued |-> FALSE, logs |-> <<>>]
    /\ ListInit
    /\ ValidatorInit

LedgerNext == \E id \in LedgerIds, status \in TransactionStatus : UpdateStatus(id, status)

\* updateTransactionStatus applied, any number of times, to any ledger.
SpecLedger == LedgerInit /\ [][LedgerNext]_vars

(* The start of the payment page, step by step.  Effect 1 and Effect 2 run *)
(* one after the other when the page has mounted, both with the first     *)
(* render's transactions; the ledger Effect 1 read is rendered afterwards. *)

\* Effect 1, then Effect 2 of the first render
MountEffects ==
    /\ ~txLoaded
    /\ LET parsed == IF LogsParse(txLogs) THEN txLogs.logs ELSE <<>>
           resumed == Resumable(parsed)
       IN  /\ parsedLogs' = [queued |-> LogsParse(txLogs), logs |-> parsed]
           /\ calls' = {[tx |-> Closure(tx), attempt |-> ResumeAttempt(tx), pc |-> "fetch"] :
                            tx \in resumed}
           /\ requests' = requests \cup {Fetch(tx) : tx \in resumed}
           /\ sent' = [k \in Keys |-> IF \E tx \in resumed : tx.id = k THEN Count(sent[k]) ELSE sent[k]]
    /\ txLoaded' = TRUE
    /\ txLogs' = SaveLogs(txLoaded', transactions, txLogs)
    /\ UNCHANGED <<transactions, email, amount, nextKey, processedTransactions, reloads,
                   allTransient, recorded>>
    /\ UNCHANGED <<ordersVars, permVars, listVars, validatorVars>>

\* the render of setTransactions(parsedLogs), then Effect 2
RenderRestored ==
    /\ parsedLogs.queued
    /\ transactions' = parsedLogs.logs
    /\ parsedLogs' = [queued |-> FALSE, logs |-> <<>>]
    /\ txLogs' = SaveLogs(txLoaded, transactions', txLogs)
    /\ UNCHANGED <<txLoaded, email, amount, nextKey, calls, requests, processedTransactions,
                   reloads, sent, allTransient, recorded>>
    /\ UNCHANGED <<ordersVars, permVars, listVars, validatorVars>>

\* the page is closed: its state, calls and timers are gone, storage stays
ClosePage ==
    /\ txLoaded /\ ~parsedLogs.queued
    /\ reloads < MaxReloads
    /\ reloads' = reloads + 1
    /\ transactions' = <<>>
    /\ txLoaded' = FALSE
    /\ calls' = {}
    /\ requests' = {r \in requests : ~r.live} \cup
                   {[r EXCEPT !.live = FALSE] :
                       r \in {q \in requests : q.live /\ q.stage \notin Responses}}
    /\ allTransient' = [k \in Keys |->
                          allTransient[k] /\ ~\E c \in calls : c.tx.id = k /\ c.pc = "fetch"]
    /\ email' = ""
    /\ amount' = ""
    /\ UNCHANGED <<txLogs, nextKey, processedTransactions, sent, recorded, parsedLogs>>
    /\ UNCHANGED <<ordersVars, permVars, listVars, validatorVars>>

\* the page about to mount over whatever an earlier visit left in storage
StartupInit ==
    /\ OrdersInit
    /\ PermIdle
    /\ ListInit
    /\ ValidatorInit
    /\ transactions = <<>>
    /\ txLogs \in {NoLogs, DamagedLogs} \cup
                  {[present |-> TRUE, logs |-> l] :
                      l \in {m \in Ledgers : \A i \in DOMAIN m : m[i].id \in Keys}}
    /\ txLoaded = FALSE
    /\ email = ""
    /\ amount = ""
    /\ nextKey = MaxTx
    /\ calls = {}
    /\ requests = {}
    /\ processedTransactions = [k \in Keys |-> NoRecord]
    /\ reloads = 0
    /\ sent = [k \in Keys |-> 0]
    /\ allTransient = [k \in Keys |-> TRUE]
    /\ recorded = [k \in Keys |-> 0]
    /\ parsedLogs = [queued |-> FALSE, logs |-> <<>>]

StartupNext ==
    \/ MountEffects
    \/ RenderRestored
    \/ ClosePage
    \/ txLoaded /\ ~parsedLogs.queued /\ \E r \in requests, status \in Responses : Answer(r, status)
    \/ txLoaded /\ ~parsedLogs.queued /\ \E c \in calls : ClientResponse(c)
    \/ txLoaded /\ ~parsedLogs.queued /\ \E c \in calls : FetchThrows(c)
    \/ txLoaded /\ ~parsedLogs.queued /\ \E c \in calls : RetryTimer(c)

\* The page mounting, working off what it resumed, and being closed.
SpecStartup == StartupInit /\ [][StartupNext]_vars

\* the out-of-order page right after a reset, timers of a simulation started
\* before it still pending
ResetInit ==
    /\ stateMap = <<>>
    /\ ordersDb = NoStorage
    /\ isLoaded = TRUE
    /\ eventLog = <<>>
    /\ activeItems = <<>>
    /\ allItemsInStorage = <<>>
    /\ now \in 1..MaxNow
    /\ \E t \in 1..now : \E id \in Ids : \E shuffled \in Shuffles(FlowEvents(id, t)) :
           \E k \in DOMAIN shuffled :
               timers = <<[t |-> t, queue |-> SubSeq(shuffled, k, Len(shuffled))]>>
    /\ seenTop = NothingSeen
    /\ existingRecord = NoItem
    /\ PermIdle
    /\ TxInit
    /\ ListInit
    /\ ValidatorInit

ResetNext ==
    \/ \E k \in 1..MaxFlows : TimerFires(k)
    \/ Tick
    \/ ClearStorage

\* After a reset, the user starting no new simulation.
SpecReset == ResetInit /\ [][ResetNext]_vars

AgreementNext ==
    \/ \E a \in Amounts : HandleSubmit("a@b.c", a)
    \/ \E c \in calls : ClientResponse(c)
    \/ \E c \in calls : FetchThrows(c)
    \/ \E c \in calls : RetryTimer(c)
    \/ \E r \in requests, random \in Randoms : Post(r, random)
    \/ \E r \in requests : PostAfterDelay(r)

\* One visit of the payment page with the API behind it: submits with an
\* email, the server's own answers, lost responses and retries.
SpecAgreement == Init /\ [][AgreementNext]_vars

\* the user types e and a into the fields of the form
TypeFields(e, a) ==
    /\ email' = e
    /\ amount' = a
    /\ UNCHANGED <<transactions, txLogs, txLoaded, nextKey, calls, requests,
                   processedTransactions, reloads, sent, allTransient, recorded>>
    /\ UNCHANGED <<ordersVars, permVars, pageVars>>

\* the form is submitted with the fields as they stand: handleSubmit returns
\* at once when one is empty
SubmitFields ==
    IF FalsyString(email) \/ FalsyString(amount)
    THEN UNCHANGED vars
    ELSE HandleSubmit(email, amount)

FormNext ==
    \/ \E e \in Emails, a \in Amounts : TypeFields(e, a)
    \/ SubmitFields
    \/ \E r \in requests, status \in Responses : Answer(r, status)
    \/ \E c \in calls : ClientResponse(c)
    \/ \E c \in calls : FetchThrows(c)
    \/ \E c \in calls : RetryTimer(c)

\* The payment form typed into and submitted, any number of times in a row.
SpecForm == Init /\ [][FormNext]_vars

\* The payment page against an API that answers each request with any status
\* POST can give it.
SpecClient == Init /\ [][ClientNext]_vars

\* every request is answered or its fetch throws, and every retry timer runs
ClientFairness ==
    /\ WF_vars(\E r \in requests, status \in Responses : Answer(r, status))
    /\ WF_vars(\E c \in calls : ClientResponse(c) \/ FetchThrows(c))
    /\ WF_vars(\E c \in calls : RetryTimer(c))

SpecClientFair == SpecClient /\ ClientFairness

\* A permutation run: a fixed set of events of one entity, each delivered
\* once, in any order, to an empty map.

RECURSIVE Batches(_, _)
Batches(id, n) ==
    IF n = 0 THEN {{}}
    ELSE Batches(id, n - 1) \cup
         {B \cup {ev} : B \in Batches(id, n - 1), ev \in EventsOf(id)}

PermInit ==
    /\ OrdersInit
    /\ batch \in UNION {Batches(id, MaxBatch) \ {{}} : id \in Ids}
    /\ undelivered = batch
    /\ TxInit
    /\ ListInit
    /\ ValidatorInit

Deliver(ev) ==
    /\ ev \in undelivered
    /\ ProcessEvent(ev)
    /\ undelivered' = undelivered \ {ev}
    /\ UNCHANGED <<timers, now, seenTop, existingRecord, batch, txVars, pageVars>>

PermNext == \E ev \in ServerEvent : Deliver(ev)

SpecPermutation == PermInit /\ [][PermNext]_vars

---------------------------------------------------------------------------
(* The claims about the reconciler *)

HasEntry(id) == MapHas(stateMap, id)
Stored(id) == MapGet(stateMap, id)
InActiveView(id) == \E i \in DOMAIN activeItems : activeItems[i].id = id
NewestEvent == IF eventLog = <<>> THEN NoEvent ELSE eventLog[1]

\* the events of the batch that carry its maximum timestamp
TopOfBatch == {ev \in batch : \A other \in batch : other.timestamp <= ev.timestamp}

C3_TypeOfTheMaximum ==
    \A id \in Ids :
        seenTop[id].first # NoEvent =>
            /\ HasEntry(id)
            /\ \A ty \in seenTop[id].types : Stored(id).type = ty

\* C3, amended: the stored snapshot of an entity that has received events
\* since the last reset is the one built from the first-delivered of the
\* events that carry the maximum timestamp delivered for it since then.
C3_TypeOfTheFirstMaximum ==
    \A id \in Ids :
        seenTop[id].first # NoEvent =>
            /\ HasEntry(id)
            /\ Stored(id) = ItemOf(seenTop[id].first)
            /\ Stored(id).type \in seenTop[id].types

\* two events of different types were delivered at the maximum timestamp
C3_Witness ==
    \E id \in Ids :
        /\ Cardinality(seenTop[id].types) > 1
        /\ Stored(id).type = seenTop[id].first.type

\* C4: a created or updated event older than the stored tombstone leaves the
\* snapshot a tombstone, and the entity stays out of the active view.
C4_TombstoneFinality ==
    ( /\ eventLog # <<>>
      /\ existingRecord.type = "deleted"
      /\ NewestEvent.type # "deleted"
      /\ NewestEvent.timestamp < existingRecord.lastUpdated )
    => ( /\ Stored(NewestEvent.id) = existingRecord
         /\ ~InActiveView(NewestEvent.id) )

\* a created event arrived after a newer tombstone of its entity
C4_Witness ==
    /\ eventLog # <<>>
    /\ existingRecord.type = "deleted"
    /\ NewestEvent.type = "created"
    /\ NewestEvent.timestamp < existingRecord.lastUpdated
    /\ Stored(NewestEvent.id).type = "deleted"

\* C5: an event at the stored snapshot's timestamp leaves the snapshot as it
\* was, so a second delivery of an event changes nothing.
C5_EqualTimestampDiscarded ==
    ( /\ eventLog # <<>>
      /\ existingRecord # NoItem
      /\ NewestEvent.timestamp = existingRecord.lastUpdated )
    => Stored(NewestEvent.id) = existingRecord

\* an event differing from the stored one arrived at its timestamp
C5_Witness ==
    /\ eventLog # <<>>
    /\ existingRecord # NoItem
    /\ NewestEvent.timestamp = existingRecord.lastUpdated
    /\ ItemOf(NewestEvent) # existingRecord
    /\ Stored(NewestEvent.id) = existingRecord

\* C6: a created event newer than the stored tombstone replaces it, and the
\* entity is in the active view again.
C6_RecreationAccepted ==
    ( /\ eventLog # <<>>
      /\ existingRecord.type = "deleted"
      /\ NewestEvent.type = "created"
      /\ NewestEvent.timestamp > existingRecord.lastUpdated )
    => ( /\ Stored(NewestEvent.id) = ItemOf(NewestEvent)
         /\ \E i \in DOMAIN activeItems : activeItems[i] = ItemOf(NewestEvent) )

\* a created event arrived after an older tombstone of its entity
C6_Witness ==
    /\ eventLog # <<>>
    /\ existingRecord.type = "deleted"
    /\ NewestEvent.type = "created"
    /\ NewestEvent.timestamp > existingRecord.lastUpdated
    /\ InActiveView(NewestEvent.id)

\* C7, as stated: no operation of the page takes an entity's snapshot out of
\* the map.
C7_NeverErased ==
    [][\A id \in Ids : MapHas(stateMap, id) => MapHas(stateMap', id)]_vars

\* C7, amended: no operation of the page other than Reset (clearStorage) takes
\* an entity's snapshot out of the map.
C7_ErasedOnlyByReset ==
    [][ClearStorage \/ \A id \in Ids : MapHas(stateMap, id) => MapHas(stateMap', id)]_vars

\* the snapshots came back from storage when the page was loaded again
C7_Witness ==
    /\ stateMap # <<>>
    /\ eventLog = <<>>

---------------------------------------------------------------------------
(* Claims about the payment form and its API *)

\* the ledger entries of key k with the given status
EntriesOf(k, status) ==
    {i \in DOMAIN transactions : transactions[i].id = k /\ transactions[i].status = status}

\* C8: Retry bound. An operation whose every delivery attempt ended in a
\* transient failure (503 or a thrown network error) has had at most
\* MAX_RETRIES delivery attempts, and it is in status error only after
\* exactly MAX_RETRIES of them: no sixth attempt is issued for its token.
C8_RetryBound ==
    \A k \in Keys :
        allTransient[k] =>
            /\ sent[k] <= MAX_RETRIES
            /\ EntriesOf(k, "error") # {} => sent[k] = MAX_RETRIES

\* C9: Resumption preserves the retry budget. A processTransaction call, resumed
\* or not, runs at the attempt count its token has used, and the delivery
\* attempts of a token never exceed MAX_RETRIES across page loads.
C9_ResumptionKeepsBudget ==
    /\ \A c \in calls : c.attempt = sent[c.tx.id]
    /\ \A k \in Keys : sent[k] <= MAX_RETRIES

\* C10: Idempotence. However often and however close together requests with
\* one idempotency key reach the server, the recording step runs at most once
\* for the key, a key confirmed in the ledger was recorded exactly once, and
\* the ledger holds at most one confirmed entry for it.
C10_RecordedOnce ==
    \A k \in Keys :
        /\ recorded[k] <= 1
        /\ Cardinality(EntriesOf(k, "success")) <= 1
        /\ EntriesOf(k, "success") # {} => recorded[k] = 1

\* the requests of key k the server has still to answer
Unanswered(k) == {r \in requests : r.key = k /\ r.stage \notin Responses}

\* the processTransaction calls of key k, awaiting fetch or their retry timer
CallsOf(k) == {c \in calls : c.tx.id = k}

\* C11: At most one delivery attempt per token is in flight at any time: a
\* token has at most one processTransaction call outstanding and at most one
\* request the server has still to answer.
C11_OneInFlight ==
    \A k \in Keys :
        /\ Cardinality(CallsOf(k)) <= 1
        /\ Cardinality(Unanswered(k)) <= 1

Terminal == {"success", "error"}

\* the status the ledger txs shows for key k
StatusOf(txs, k) ==
    IF \E i \in DOMAIN txs : txs[i].id = k
    THEN txs[CHOOSE i \in DOMAIN txs : txs[i].id = k].status
    ELSE "none"

\* C12: No step (submit, response, thrown fetch, retry timer, clearing, page
\* reload) moves a ledger entry whose status is success or error back to
\* pending or retrying.
C12_TerminalNeverReopened ==
    [][\A k \in Keys :
          StatusOf(transactions, k) \in Terminal
              => StatusOf(transactions', k) \notin {"pending", "retrying"}]_vars

\* a confirmed entry that was retried, on a page that was loaded again
C12_Witness ==
    \E k \in Keys :
        StatusOf(transactions, k) = "success" /\ sent[k] >= 2 /\ reloads > 0

\* C13: Once the status of an entry is success or error the page has no
\* processTransaction call (no request awaited, no retry timer pending) for
\* its token, also after the page was loaded again.
C13_TerminalIsQuiet ==
    \A k \in Keys :
        StatusOf(transactions, k) \in Terminal
            => /\ CallsOf(k) = {}
               /\ ~\E r \in requests : r.key = k /\ r.live

\* a failed entry whose token was sent five times or more, on a page that was
\* loaded again
C13_Witness ==
    \E k \in Keys :
        StatusOf(transactions, k) = "error" /\ sent[k] >= MAX_RETRIES /\ reloads > 0

\* C14: A terminal response (400, the one non-2xx status other than 503 the
\* API gives this page) received by a processTransaction call ends the call
\* at once, at any attempt number: the entry of its token, if the ledger still
\* has one, is in status error, and no call or retry timer is left for it.
C14_TerminalResponseFails ==
    [][\A c \in calls :
          (c.pc = "fetch" /\ RequestOf(c).stage = "400" /\ ClientResponse(c))
              => /\ StatusOf(transactions', c.tx.id) \in {"error", "none"}
                 /\ StatusOf(transactions, c.tx.id) # "none"
                        => StatusOf(transactions', c.tx.id) = "error"
                 /\ ~\E d \in calls' : d.tx.id = c.tx.id]_vars

\* an entry failed by a 400 received on its second attempt
C14_Witness ==
    \E k \in Keys :
        /\ StatusOf(transactions, k) = "error"
        /\ sent[k] = 2
        /\ reloads = 0
        /\ CallsOf(k) = {}

\* call c ends in a transient failure: its response is a 503 or its fetch throws
FailsTransiently(c) ==
    /\ c.pc = "fetch"
    /\ \/ FetchThrows(c)
       \/ RequestOf(c).stage = "503" /\ ClientResponse(c)

\* call c receives a terminal response
FailsTerminally(c) ==
    c.pc = "fetch" /\ RequestOf(c).stage = "400" /\ ClientResponse(c)

\* C15: Transient failures are absorbed. The status of an entry becomes error
\* only in a step in which a call of its token receives a terminal response,
\* or in which the call running at attempt MAX_RETRIES, the token having been
\* sent five times or more, fails transiently; a transient failure of a call
\* at attempts 1 to 4 leaves the status as it was.
C15_ErrorOnlyWhenFinal ==
    [][\A k \in Keys :
          /\ (StatusOf(transactions', k) = "error" /\ StatusOf(transactions, k) # "error")
                => \E c \in CallsOf(k) :
                      \/ FailsTerminally(c)
                      \/ /\ FailsTransiently(c)
                         /\ c.attempt = MAX_RETRIES
                         /\ sent[k] >= MAX_RETRIES
          /\ \A c \in CallsOf(k) :
                (c.attempt < MAX_RETRIES /\ FailsTransiently(c))
                    => StatusOf(transactions', k) = StatusOf(transactions, k)]_vars

\* an entry failed by its fifth transient failure, no response but 503 received
C15_Witness ==
    \E k \in Keys :
        /\ StatusOf(transactions, k) = "error"
        /\ allTransient[k]
        /\ sent[k] = MAX_RETRIES

\* C16: While the retry timer of a processTransaction call is pending, the
\* ledger entry of its token, if the ledger still has one, is in status
\* retrying (and so is what is stored then).
C16_RetryingDuringDelay ==
    \A c \in calls :
        c.pc = "timer"
            => /\ StatusOf(transactions, c.tx.id) \in {"retrying", "none"}
               /\ txLogs.present => StatusOf(txLogs.logs, c.tx.id) \in {"retrying", "none"}

\* the keys the stored ledger holds in status pending or retrying
StoredUnfinished ==
    {k \in Keys : txLogs.present /\ StatusOf(txLogs.logs, k) \in {"pending", "retrying"}}

\* C17: When the page is loaded again, exactly the tokens stored in status
\* pending or retrying get a processTransaction call, one each, and each call
\* sends one request; a token stored as success or error gets none; and every
\* call of the old page whose token the ledger holds is taken up again.
C17_ResumesExactlyUnfinished ==
    [][reloads' = reloads + 1
          => /\ {c.tx.id : c \in calls'} = StoredUnfinished
             /\ Cardinality(calls') = Cardinality(StoredUnfinished)
             /\ \A c \in calls' :
                    /\ c.pc = "fetch"
                    /\ Cardinality({r \in requests' : r.live /\ r.key = c.tx.id}) = 1
             /\ \A c \in calls :
                    StatusOf(transactions, c.tx.id) # "none"
                        => \E d \in calls' : d.tx.id = c.tx.id]_vars

\* an entry stored as retrying, taken up by the page loaded again
C17_Witness ==
    /\ reloads > 0
    /\ \E c \in calls :
          /\ c.attempt = 1
          /\ c.pc = "fetch"
          /\ StatusOf(transactions, c.tx.id) = "retrying"

TakenUp == {r \in requests : r.stage = "sent" /\ r \notin requests'}

C20_RejectedNotRemembered ==
    [][/\ \A r \in TakenUp :
             (\E s \in {"400", "503"} : [r EXCEPT !.stage = s] \in requests' \ requests)
                 => /\ processedTransactions' = processedTransactions
                    /\ recorded' = recorded
       /\ \A k \in Keys : processedTransactions[k] # NoRecord => recorded[k] >= 1]_vars

\* a key recorded while a 503 given to an earlier request with it is on its way
C20_Witness ==
    \E r \in requests :
        /\ r.stage = "503"
        /\ recorded[r.key] = 1

\* the keys handleSubmit has given out
Issued == 1..nextKey

\* the stored ledger
StoredLogs == IF txLogs.present THEN txLogs.logs ELSE <<>>

\* C21: No resurrection. A token that was submitted and has no entry in the
\* ledger (the user cleared it) gets none again, in memory or in storage,
\* whatever response, thrown fetch or retry timer of its call comes later.
C21_ClearedStaysCleared ==
    [][\A k \in Issued :
          /\ StatusOf(transactions, k) = "none" => StatusOf(transactions', k) = "none"
          /\ StatusOf(StoredLogs, k) = "none" => StatusOf(StoredLogs', k) = "none"]_vars

\* the ledger was cleared and the retry timer of a call is pending
C21_Witness ==
    \E c \in calls :
        /\ c.pc = "timer"
        /\ StatusOf(transactions, c.tx.id) = "none"
        /\ StatusOf(StoredLogs, c.tx.id) = "none"

\* C22: Clearing cancels pending retries: no request is sent for a token that
\* was submitted and whose entry has been cleared from the ledger.
C22_NoAttemptAfterClear ==
    [][\A k \in Issued :
          StatusOf(transactions, k) = "none"
              => /\ sent'[k] = sent[k]
                 /\ \A r \in requests' \ requests :
                        ~(r.key = k /\ r.live /\ r.stage = "sent")]_vars

ItemsIn(list) == {list[i] : i \in DOMAIN list}

\* C24: The views mirror the map. After every load, event and reset the
\* active view holds exactly the stored snapshots whose type is not deleted,
\* each once, in the order of their ids, and the full-history view holds
\* exactly all stored snapshots, each once, newest lastUpdated first; a
\* tombstone is in the full-history view and not in the active view.
C24_ViewsMirrorTheMap ==
    /\ ItemsIn(activeItems) = {x \in ItemsIn(stateMap) : x.type # "deleted"}
    /\ Len(activeItems) = Cardinality(ItemsIn(activeItems))
    /\ \A i, j \in DOMAIN activeItems :
          i < j => IdRank(activeItems[i].id) < IdRank(activeItems[j].id)
    /\ ItemsIn(allItemsInStorage) = ItemsIn(stateMap)
    /\ Len(allItemsInStorage) = Len(stateMap)
    /\ \A i, j \in DOMAIN allItemsInStorage :
          i < j => allItemsInStorage[i].lastUpdated >= allItemsInStorage[j].lastUpdated
    /\ \A x \in ItemsIn(stateMap) :
          x.type = "deleted" => x \in ItemsIn(allItemsInStorage) /\ x \notin ItemsIn(activeItems)

\* a tombstone and a live snapshot in the map, the older of the two stored last
C24_Witness ==
    /\ Len(stateMap) = 2
    /\ \E x \in ItemsIn(stateMap) : x.type = "deleted"
    /\ activeItems # <<>>
    /\ stateMap[1].lastUpdated < stateMap[2].lastUpdated
    /\ IdRank(stateMap[1].id) > IdRank(stateMap[2].id)

\* entry x with its status left out
PayloadOf(x) == [id |-> x.id, email |-> x.email, amount |-> x.amount, timestamp |-> x.timestamp]

\* C25: The payload is immutable. updateTransactionStatus(id, status) keeps
\* the ledger's length and order and every entry's id, email, amount and
\* timestamp; the entry with the id gets the status, and every other entry
\* keeps its own.
C25_OnlyTheStatusChanges ==
    [][\A id \in LedgerIds, status \in TransactionStatus :
          UpdateStatus(id, status)
              => /\ Len(transactions') = Len(transactions)
                 /\ \A i \in DOMAIN transactions :
                       /\ PayloadOf(transactions'[i]) = PayloadOf(transactions[i])
                       /\ transactions'[i].status =
                              IF transactions[i].id = id THEN status
                              ELSE transactions[i].status]_vars

\* a ledger of two entries, one updated, the other as it was created
C25_Witness ==
    /\ Len(transactions) = 2
    /\ transactions[1].status = "success"
    /\ transactions[2].status = "pending"

\* C26: A double submit creates one transaction. handleSubmit leaves both
\* fields empty when it has created an entry, and a submit that finds a field
\* empty (the second of two in a row) adds no entry, mints no key and sends no
\* request.
C26_SecondSubmitDoesNothing ==
    [][/\ nextKey' # nextKey
            => /\ email' = "" /\ amount' = ""
               /\ Len(transactions') = Len(transactions) + 1
       /\ (SubmitFields /\ (email = "" \/ amount = ""))
            => /\ transactions' = transactions
               /\ nextKey' = nextKey
               /\ requests' = requests
               /\ calls' = calls]_vars

\* the form after a submit: one entry, one request, the fields empty
C26_Witness ==
    /\ nextKey = 1
    /\ Len(transactions) = 1
    /\ email = "" /\ amount = ""
    /\ \E r \in requests : r.live /\ r.key = 1
    /\ Cardinality(requests) = 1

---------------------------------------------------------------------------
(* The claims about the paginated list *)

\* The list page alone: every answer the API can give to every fetch.
SpecList == Init /\ [][ListNext]_vars

\* C27: no id appears twice in the displayed items, whatever pages the API
\* answers with, short pages and pages that repeat the previous page's
\* items included.
C27_NoIdTwice ==
    \A i \in DOMAIN items : \A j \in DOMAIN items : items[i] = items[j] => i = j

\* a short page led by the previous page's last items has been merged
C27_Witness ==
    /\ listStatus = "idle"
    /\ page > 1
    /\ Len(newBatch) = OverlapSize + ShortSize
    /\ newBatch[1] = FACTS_DB[(page - 1) * PAGE_SIZE - OverlapSize + 1]
    /\ \E i \in DOMAIN items : items[i] = newBatch[1]

\* C28: when the list reports finished, the displayed items hold every
\* record of the database.
C28_FinishedMeansComplete ==
    listStatus = "finished" =>
        \A r \in DOMAIN FACTS_DB : \E i \in DOMAIN items : items[i] = FACTS_DB[r]

---------------------------------------------------------------------------
(* The claims about the validator form *)

\* The validator form alone.
SpecValidator == Init /\ [][ValidatorNext]_vars

\* C29: every field that is non-empty or shows a client error shows exactly
\* what validateField gives under the current mode on the current value.
C29_ErrorsFollowModeAndValue ==
    \A name \in FieldNames :
        (formData[name] # "" \/ clientErrors[name] # NoError)
            => clientErrors[name] = ValidateField(mode, name, formData[name])

\* after a switch to strict, a typed address that relaxed accepts shows the
\* strict message, and the untouched empty notes show nothing
C29_Witness ==
    /\ mode = "strict"
    /\ formData.email = "a@b.co"
    /\ clientErrors.email = ValidateField("strict", "email", "a@b.co")
    /\ clientErrors.email # ValidateField("relaxed", "email", "a@b.co")
    /\ formData.notes = ""
    /\ clientErrors.notes = NoError

\* C30: data reach the server only when every field passed validation under
\* the mode of the submit; sent in strict mode they have non-blank notes, a
\* corporate address and an age of 21 to 65.
C30_OnlyValidDataSent ==
    \A call \in serverCalls :
        /\ \A name \in FieldNames : ValidateField(call.mode, name, call.data[name]) = NoError
        /\ call.mode = "strict" =>
              /\ Trim(call.data.notes) # ""
              /\ call.data.email \in {"a@corporate.com", "test@bhumio.com"}
              /\ Number(call.data.age) >= 21
              /\ Number(call.data.age) <= 65

\* a strict submission is with the server
C30_Witness ==
    /\ isSubmitting
    /\ \E call \in serverCalls : call.mode = "strict" /\ call.data = formData

\* C31: a submission stopped by client validation, an answer of the server
\* (rejection or success) and a mode switch leave the values of the fields
\* as they are.
C31_InputNeverLost ==
    [][(\/ ValidatorHandleSubmit
        \/ \E call \in serverCalls, random \in BOOLEAN : ServerAnswer(call, random)
        \/ \E m \in {"relaxed", "strict"} : SetMode(m))
       => formData' = formData]_vars

\* after a switch to strict, the server has rejected a submission and
\* every field still holds what was typed
C31_Witness ==
    /\ mode = "strict"
    /\ serverErrors.email # NoError
    /\ ~isSubmitting
    /\ formData = [email |-> "test@bhumio.com", age |-> "30", notes |-> "n"]

\* C32: an edit of a field removes the server error shown for it and leaves
\* the root error alone; a root error that is shown goes only when a
\* submission starts.
C32_ServerErrorsCleared ==
    [][/\ \A name \in FieldNames : \A value \in FieldValues[name] :
              HandleChange(name, value)
                  => /\ serverErrors'[name] = NoError
                     /\ serverErrors'.root = serverErrors.root
       /\ (serverErrors.root # NoError /\ serverErrors'.root # serverErrors.root)
              => ValidatorHandleSubmit]_vars

\* the root error is still shown over fields edited since: the server never
\* answers this address with the root error
C32_Witness ==
    /\ serverErrors.root # NoError
    /\ formData.email = "test@bhumio.com"
    /\ serverErrors.email = NoError
    /\ ~isSubmitting

\* C39: a server error shown for a field stands beside the value the server
\* rejected: the blacklisted address, or the age 30.
C39_ErrorBesideRejectedValue ==
    /\ serverErrors.email # NoError => formData.email = "test@bhumio.com"
    /\ serverErrors.age # NoError => formData.age # "" /\ Number(formData.age) = 30

---------------------------------------------------------------------------
(* The claims about persistence and agreement with the server *)

\* C33: from the reading of a stored ledger that is not empty until its
\* rendering, storage holds that ledger: the save effect has not written
\* the first render's empty list over it.
C33_StoredLedgerNotEmptied ==
    (parsedLogs.queued /\ parsedLogs.logs # <<>>)
        => txLogs = [present |-> TRUE, logs |-> parsedLogs.logs]

\* C34: after an accepted event and after a reset, the Map read from storage
\* (no item counting as the empty Map) is the Map in memory; a discarded
\* event changes neither; a reload gives back the Map as it was.
C34_StorageMirrorsTheMap ==
    \* a step that leaves an entry in the feed delivers that entry: reset and
    \* reload leave the feed empty
    [][LET delivered == eventLog' # <<>>
           late == eventLog' # <<>> /\ IsLate(stateMap, eventLog'[1])
       IN  /\ ((delivered /\ ~late) \/ ClearStorage)
                  => stateMap' = IF ordersDb'.present
                                 THEN MapFromEntries(ordersDb'.entries)
                                 ELSE <<>>
           /\ (delivered /\ late) => UNCHANGED <<stateMap, ordersDb>>
           /\ Reload => stateMap' = stateMap]_vars

\* a reload has restored a Map of both orders from storage
C34_Witness ==
    /\ eventLog = <<>>
    /\ Len(stateMap) = 2
    /\ ordersDb.present
    /\ MapFromEntries(ordersDb.entries) = stateMap

\* C35: an operation the ledger shows as success has its key in the
\* server's Map.
C35_SuccessIsRecorded ==
    \A i \in DOMAIN transactions :
        transactions[i].status = "success"
            => processedTransactions[transactions[i].id] # NoRecord

\* C36: an operation the ledger shows as error has no key in the server's
\* Map.
C36_ErrorIsNotRecorded ==
    \A i \in DOMAIN transactions :
        transactions[i].status = "error"
            => processedTransactions[transactions[i].id] = NoRecord

\* the ledger shows a success reached by a retry, the key recorded once
C35_Witness ==
    \E i \in DOMAIN transactions :
        /\ transactions[i].status = "success"
        /\ recorded[transactions[i].id] = 1
        /\ sent[transactions[i].id] >= 2

\* C37: after a reset, while no new simulation is started, the Map, its
\* stored copy and both views stay empty.
C37_EmptyAfterReset ==
    /\ stateMap = <<>>
    /\ ~ordersDb.present
    /\ activeItems = <<>>
    /\ allItemsInStorage = <<>>

\* C38: the delivery of an event of one order leaves every other order as
\* it is in the Map: not added, not removed, its snapshot unchanged.
C38_OtherOrdersUntouched ==
    \* a step that leaves an entry in the feed delivers that entry
    [][eventLog' # <<>>
          => \A id \in Ids \ {eventLog'[1].id} :
                 /\ MapHas(stateMap', id) = MapHas(stateMap, id)
                 /\ MapGet(stateMap', id) = MapGet(stateMap, id)]_vars

\* the newest event, of ORD-101, was accepted while ORD-100 holds a
\* snapshot of another time
C38_Witness ==
    /\ eventLog # <<>>
    /\ eventLog[1].id = "ORD-101"
    /\ MapGet(stateMap, "ORD-101") = ItemOf(eventLog[1])
    /\ MapHas(stateMap, "ORD-100")
    /\ MapGet(stateMap, "ORD-100").lastUpdated # eventLog[1].timestamp

====
